---- MODULE Spec2Model ----
(***************************************************************************)
(* Schema node model (lang/c++/api/NodeImpl.hh) and the stack-based        *)
(* schema builder CompilerContext (lang/c++/impl/Compiler.cc).             *)
(*                                                                         *)
(* Nodes live in a heap `nodes` (a sequence; a NodePtr is an index into    *)
(* it, NULL is 0).  A std::string is a sequence of one-character strings.  *)
(* A SingleAttribute is a sequence of length 0 or 1, a MultiAttribute a    *)
(* sequence, a NoAttribute the empty sequence of a kind that may not hold  *)
(* the attribute.  An exception thrown by the code ends the compilation:   *)
(* `error` records its message and no further event is accepted.           *)
(***************************************************************************)
EXTENDS Integers, Sequences, FiniteSets, TLC

VARIABLES
    stack_,           \* CompilerContext: the frames being built, top last
    namespaceStack_,  \* CompilerContext: the namespaces in scope, innermost last
    root_,            \* CompilerContext: the finished root node, or NULL
    nodes,            \* the heap of nodes
    error,            \* the Exception that ended the compilation, or NoError
    events,           \* builder events delivered so far
    pushDepth,        \* per open frame: depth of namespaceStack_ at its startType()
    last,             \* the last call made on a node and what it returned
    owners,           \* nodes some NodePtr outside the heap holds
    alive,            \* nodes not yet destroyed
    passed            \* per node: the target last given to a Symbolic node, or NULL

vars == <<stack_, namespaceStack_, root_, nodes, error, events, pushDepth, last,
          owners, alive, passed>>
ctxVars == <<stack_, namespaceStack_, root_, error, events, pushDepth>>

(* ------------------------------ bounds -------------------------------- *)

\* number of builder events of one compilation
MaxEvents == 6
\* number of frames open at once
MaxDepth == 2
\* fields of a declared record
MaxDeclared == 2

(* ------------------------------ types --------------------------------- *)

NULL == 0
NoError == "none"

Primitives == {"AVRO_STRING", "AVRO_BYTES", "AVRO_INT", "AVRO_LONG", "AVRO_FLOAT",
               "AVRO_DOUBLE", "AVRO_BOOL", "AVRO_NULL"}
NamedTypes == {"AVRO_RECORD", "AVRO_ENUM", "AVRO_FIXED"}
Compounds == {"AVRO_RECORD", "AVRO_ENUM", "AVRO_ARRAY", "AVRO_MAP", "AVRO_UNION", "AVRO_FIXED"}
\* the kind of a frame before addType()
AVRO_NUM_TYPES == "AVRO_NUM_TYPES"

\* the compile-time attribute table of the node kinds
HasNameAttr(type) == type \in {"AVRO_SYMBOLIC", "AVRO_RECORD", "AVRO_ENUM", "AVRO_FIXED"}
\* the kind table with a namespace slot on every kind that has a name slot
HasNamespaceAttr_AsName(type) == HasNameAttr(type)
HasNamespaceAttr(type) == type \in {"AVRO_RECORD", "AVRO_ENUM", "AVRO_FIXED"}
HasLeaves(type) == type \in {"AVRO_RECORD", "AVRO_ARRAY", "AVRO_MAP", "AVRO_UNION"}
HasLeafNames(type) == type \in {"AVRO_RECORD", "AVRO_ENUM"}
HasSizeAttr(type) == type = "AVRO_FIXED"

(* ------------------------- attribute concepts ------------------------- *)

\* SingleAttribute::add: a slot holds zero or one value
SingleAttributeAdd(attr, v) ==
    IF Len(attr) = 0 THEN [ok |-> TRUE, val |-> <<v>>]
    ELSE [ok |-> FALSE, val |-> attr]

\* SingleAttribute<std::string>::get of a slot: the value, default-constructed when unset
SingleAttributeGetText(attr) == IF Len(attr) = 0 THEN <<>> ELSE attr[1]

\* NameIndexConcept::add(name, index): false, nothing inserted, when the name exists
NameIndexHas(idx, name) == \E p \in idx : p[1] = name
NameIndexAdd(idx, name, index) ==
    IF NameIndexHas(idx, name) THEN [ok |-> FALSE, idx |-> idx]
    ELSE [ok |-> TRUE, idx |-> idx \cup {<<name, index>>}]

(* ------------------------------- nodes -------------------------------- *)

\* NodeImpl(type, name, leaves, leafNames, size, ns)
NodeImpl(type, name, leaves, leafNames, size, ns) ==
    [type |-> type, nameAttribute_ |-> name, leafAttributes_ |-> leaves,
     leafNameAttributes_ |-> leafNames, sizeAttribute_ |-> size,
     namespaceAttribute_ |-> ns, nameIndex_ |-> {}, actualNode_ |-> NULL]

\* NodeImpl(type): every attribute default-constructed
NodeImplDefault(type) == NodeImpl(type, <<>>, <<>>, <<>>, <<>>, <<>>)

NodePrimitive(type) == NodeImplDefault(type)

\* a constructor loop that counts the positions from 1
IndexNames_FromOne(names, i, idx) ==
    [ok |-> \A j, k \in 1..Len(names) : j # k => names[j] # names[k],
     idx |-> {<<names[k], k>> : k \in 1..Len(names)}]

\* the loop of the NodeRecord and NodeEnum constructors: index every name, throw
\* on the first duplicate
RECURSIVE IndexNames(_, _, _)
IndexNames(names, i, idx) ==
    IF i > Len(names) THEN [ok |-> TRUE, idx |-> idx]
    ELSE LET r == NameIndexAdd(idx, names[i], i - 1)
         IN  IF r.ok THEN IndexNames(names, i + 1, r.idx)
             ELSE [ok |-> FALSE, idx |-> idx]

Built(node) == [ok |-> TRUE, err |-> NoError, new |-> <<node>>]
Thrown(msg) == [ok |-> FALSE, err |-> msg, new |-> <<>>]

\* NodeRecord(name, fields, fieldsNames, ns) without the duplicate test of its loop
NodeRecordCtor_Unchecked(name, fields, fieldsNames, ns) ==
    Built([NodeImpl("AVRO_RECORD", name, fields, fieldsNames, <<>>, ns)
               EXCEPT !.nameIndex_ = {<<fieldsNames[i], i - 1>> : i \in 1..Len(fieldsNames)}])

NodeRecordCtor(name, fields, fieldsNames, ns) ==
    LET r == IndexNames(fieldsNames, 1, {})
    IN  IF r.ok
        THEN Built([NodeImpl("AVRO_RECORD", name, fields, fieldsNames, <<>>, ns)
                        EXCEPT !.nameIndex_ = r.idx])
        ELSE Thrown("Cannot add duplicate name")

\* NodeEnum(name, symbols, ns) without the duplicate test of its loop
NodeEnumCtor_Unchecked(name, symbols, ns) ==
    Built([NodeImpl("AVRO_ENUM", name, <<>>, symbols, <<>>, ns)
               EXCEPT !.nameIndex_ = {<<symbols[i], i - 1>> : i \in 1..Len(symbols)}])

NodeEnumCtor(name, symbols, ns) ==
    LET r == IndexNames(symbols, 1, {})
    IN  IF r.ok
        THEN Built([NodeImpl("AVRO_ENUM", name, <<>>, symbols, <<>>, ns)
                        EXCEPT !.nameIndex_ = r.idx])
        ELSE Thrown("Cannot add duplicate name")

NodeFixedCtor(name, size, ns) == Built(NodeImpl("AVRO_FIXED", name, <<>>, <<>>, size, ns))

NodeArrayCtor(items) == Built(NodeImpl("AVRO_ARRAY", <<>>, items, <<>>, <<>>, <<>>))

NodeUnionCtor(types) == Built(NodeImpl("AVRO_UNION", <<>>, types, <<>>, <<>>, <<>>))

NodeSymbolicCtor(name) == Built(NodeImpl("AVRO_SYMBOLIC", name, <<>>, <<>>, <<>>, <<>>))

\* std::swap(leafAttributes_.get(0), leafAttributes_.get(1))
SwapFirstTwo(leaves) == [leaves EXCEPT ![1] = leaves[2], ![2] = leaves[1]]

\* NodeMap(values) without the swap: the key stays behind the value
NodeMapCtor_NoSwap(values, base) ==
    [ok |-> TRUE, err |-> NoError,
     new |-> <<NodePrimitive("AVRO_STRING"),
               NodeImpl("AVRO_MAP", <<>>, Append(values, base + 1), <<>>, <<>>, <<>>)>>]

\* NodeMap(values): the value is copied in, the string key is appended and then
\* swapped in front of it.  `base` is the heap size: the key is node base+1.
NodeMapCtor(values, base) ==
    LET key == NodePrimitive("AVRO_STRING")
        leaves == Append(values, base + 1)
    IN  IF Len(leaves) < 2 THEN Thrown("index out of range")
        ELSE [ok |-> TRUE, err |-> NoError,
              new |-> <<key, NodeImpl("AVRO_MAP", <<>>, SwapFirstTwo(leaves), <<>>, <<>>, <<>>)>>]

\* Node::getNamespace
getNamespace(node) == SingleAttributeGetText(node.namespaceAttribute_)

\* NoAttribute::get: a kind that does not carry the attribute refuses the call
NoAttributeGet == [ok |-> FALSE, val |-> <<>>]

\* NodeImpl::name: nameAttribute_.get()
name(node) ==
    IF HasNameAttr(node.type)
    THEN [ok |-> TRUE, val |-> SingleAttributeGetText(node.nameAttribute_)]
    ELSE NoAttributeGet

\* SingleAttribute<int>::get of a slot: the value, value-initialised when unset
SingleAttributeGetInt(attr) == IF Len(attr) = 0 THEN 0 ELSE attr[1]

\* what() of the Exception NoAttribute::get throws
NoAttributeError == "This type does not have attribute"

\* NodeImpl::getNamespace called through Node: namespaceAttribute_.get()
namespaceGet(node) ==
    IF HasNamespaceAttr(node.type)
    THEN [ok |-> TRUE, val |-> SingleAttributeGetText(node.namespaceAttribute_)]
    ELSE NoAttributeGet

\* NodeImpl::fixedSize: sizeAttribute_.get()
fixedSize(node) ==
    IF HasSizeAttr(node.type)
    THEN [ok |-> TRUE, val |-> SingleAttributeGetInt(node.sizeAttribute_)]
    ELSE [ok |-> FALSE, val |-> 0]

\* NodeImpl::hasName, NodeImpl::hasNamespace
hasName(node) == HasNameAttr(node.type)
hasNamespace(node) == HasNamespaceAttr(node.type)

\* the switch of NodeUnion::isValid: the text a branch is remembered under
UnionBranchName(n) ==
    CASE n.type = "AVRO_STRING" -> [ok |-> TRUE, val |-> <<"s", "t", "r", "i", "n", "g">>]
      [] n.type = "AVRO_BYTES" -> [ok |-> TRUE, val |-> <<"b", "y", "t", "e", "s">>]
      [] n.type = "AVRO_INT" -> [ok |-> TRUE, val |-> <<"i", "n", "t">>]
      [] n.type = "AVRO_LONG" -> [ok |-> TRUE, val |-> <<"l", "o", "n", "g">>]
      [] n.type = "AVRO_FLOAT" -> [ok |-> TRUE, val |-> <<"f", "l", "o", "a", "t">>]
      [] n.type = "AVRO_DOUBLE" -> [ok |-> TRUE, val |-> <<"d", "o", "u", "b", "l", "e">>]
      [] n.type = "AVRO_BOOL" -> [ok |-> TRUE, val |-> <<"b", "o", "o", "l">>]
      [] n.type = "AVRO_NULL" -> [ok |-> TRUE, val |-> <<"n", "u", "l", "l">>]
      [] n.type = "AVRO_ARRAY" -> [ok |-> TRUE, val |-> <<"a", "r", "r", "a", "y">>]
      [] n.type = "AVRO_MAP" -> [ok |-> TRUE, val |-> <<"m", "a", "p">>]
      [] n.type \in {"AVRO_RECORD", "AVRO_ENUM", "AVRO_UNION", "AVRO_FIXED", "AVRO_SYMBOLIC"} ->
            name(n)
      [] OTHER -> [ok |-> TRUE, val |-> <<>>]

KnownTypes == Primitives \cup Compounds \cup {"AVRO_SYMBOLIC"}

\* the loop of NodeUnion::isValid without its seen.insert(name)
RECURSIVE UnionScan_NoInsert(_, _, _, _)
UnionScan_NoInsert(h, leaves, i, seen) ==
    IF i > Len(leaves) THEN "true"
    ELSE LET n == h[leaves[i]]
             d == UnionBranchName(n)
         IN  IF n.type \notin KnownTypes THEN "false"
             ELSE IF ~d.ok THEN "throws"
             ELSE IF d.val \in seen THEN "false"
             ELSE UnionScan_NoInsert(h, leaves, i + 1, seen)

\* the loop of NodeUnion::isValid over the branches, `seen` the std::set of names.
\* The result is "true", "false", or "throws" when name() of a branch throws.
RECURSIVE UnionScan(_, _, _, _)
UnionScan(h, leaves, i, seen) ==
    IF i > Len(leaves) THEN "true"
    ELSE LET n == h[leaves[i]]
             d == UnionBranchName(n)
         IN  IF n.type \notin KnownTypes THEN "false"
             ELSE IF ~d.ok THEN "throws"
             ELSE IF d.val \in seen THEN "false"
             ELSE UnionScan(h, leaves, i + 1, seen \cup {d.val})

NodeUnionIsValid(h, node) ==
    IF Len(node.leafAttributes_) >= 1 THEN UnionScan(h, node.leafAttributes_, 1, {})
    ELSE "false"

Bool(b) == IF b THEN "true" ELSE "false"

NodeSymbolicIsValid(node) == Bool(Len(node.nameAttribute_) = 1)

NodeRecordIsValid(node) ==
    Bool(Len(node.nameAttribute_) = 1
         /\ Len(node.leafAttributes_) = Len(node.leafNameAttributes_))

\* an isValid() of NodeEnum that asks for the name only
NodeEnumIsValid_NameOnly(node) == Bool(Len(node.nameAttribute_) = 1)

NodeEnumIsValid(node) ==
    Bool(Len(node.nameAttribute_) = 1 /\ Len(node.leafNameAttributes_) > 0)

NodeArrayIsValid(node) == Bool(Len(node.leafAttributes_) = 1)

NodeMapIsValid(node) == Bool(Len(node.leafAttributes_) = 2)

NodeFixedIsValid(node) ==
    Bool(Len(node.nameAttribute_) = 1 /\ Len(node.sizeAttribute_) = 1)

\* the virtual isValid() of node `id` of heap `h`
isValid(h, id) ==
    LET node == h[id]
    IN  CASE node.type = "AVRO_SYMBOLIC" -> NodeSymbolicIsValid(node)
          [] node.type = "AVRO_RECORD" -> NodeRecordIsValid(node)
          [] node.type = "AVRO_ENUM" -> NodeEnumIsValid(node)
          [] node.type = "AVRO_ARRAY" -> NodeArrayIsValid(node)
          [] node.type = "AVRO_MAP" -> NodeMapIsValid(node)
          [] node.type = "AVRO_UNION" -> NodeUnionIsValid(h, node)
          [] node.type = "AVRO_FIXED" -> NodeFixedIsValid(node)
          [] OTHER -> "true"

(* --------------------------- CompilerNode ----------------------------- *)

\* new CompilerNode()
CompilerNode ==
    [type_ |-> AVRO_NUM_TYPES, attributeType_ |-> "NONE",
     nameAttribute_ |-> <<>>, namespaceAttribute_ |-> <<>>, sizeAttribute_ |-> <<>>,
     fieldsAttribute_ |-> <<>>, fieldsNamesAttribute_ |-> <<>>, symbolsAttribute_ |-> <<>>,
     itemsAttribute_ |-> <<>>, valuesAttribute_ |-> <<>>, typesAttribute_ |-> <<>>]

\* CompilerNode::addNode: the finished child goes to the slot the marker names
addNode(frame, id) ==
    CASE frame.attributeType_ = "FIELDS" ->
            [ok |-> TRUE, err |-> NoError,
             frame |-> [frame EXCEPT !.fieldsAttribute_ = Append(@, id)]]
      [] frame.attributeType_ = "TYPES" ->
            [ok |-> TRUE, err |-> NoError,
             frame |-> [frame EXCEPT !.typesAttribute_ = Append(@, id)]]
      [] frame.attributeType_ = "ITEMS" ->
            LET r == SingleAttributeAdd(frame.itemsAttribute_, id)
            IN  [ok |-> r.ok,
                 err |-> IF r.ok THEN NoError ELSE "SingleAttribute can only be set once",
                 frame |-> [frame EXCEPT !.itemsAttribute_ = r.val]]
      [] frame.attributeType_ = "VALUES" ->
            LET r == SingleAttributeAdd(frame.valuesAttribute_, id)
            IN  [ok |-> r.ok,
                 err |-> IF r.ok THEN NoError ELSE "SingleAttribute can only be set once",
                 frame |-> [frame EXCEPT !.valuesAttribute_ = r.val]]
      [] OTHER -> [ok |-> FALSE, err |-> "attribute type is not set", frame |-> frame]

\* nodeFromCompilerNode: the constructor of the frame's kind
nodeFromCompilerNode(f, base) ==
    CASE f.type_ = "AVRO_RECORD" ->
            NodeRecordCtor(f.nameAttribute_, f.fieldsAttribute_, f.fieldsNamesAttribute_,
                           f.namespaceAttribute_)
      [] f.type_ = "AVRO_ENUM" ->
            NodeEnumCtor(f.nameAttribute_, f.symbolsAttribute_, f.namespaceAttribute_)
      [] f.type_ = "AVRO_FIXED" ->
            NodeFixedCtor(f.nameAttribute_, f.sizeAttribute_, f.namespaceAttribute_)
      [] f.type_ = "AVRO_ARRAY" -> NodeArrayCtor(f.itemsAttribute_)
      [] f.type_ = "AVRO_MAP" -> NodeMapCtor(f.valuesAttribute_, base)
      [] f.type_ = "AVRO_UNION" -> NodeUnionCtor(f.typesAttribute_)
      [] f.type_ = "AVRO_SYMBOLIC" -> NodeSymbolicCtor(f.nameAttribute_)
      [] f.type_ \in Primitives -> Built(NodePrimitive(f.type_))
      [] OTHER -> Thrown("Unknown type in nodeFromCompilerNode")

(* ------------------------------- text --------------------------------- *)

Digits == {"0", "1", "2", "3", "4", "5", "6", "7", "8", "9"}
DigitVal(c) ==
    CASE c = "0" -> 0 [] c = "1" -> 1 [] c = "2" -> 2 [] c = "3" -> 3 [] c = "4" -> 4
      [] c = "5" -> 5 [] c = "6" -> 6 [] c = "7" -> 7 [] c = "8" -> 8 [] c = "9" -> 9

\* the digits of atol: the value of the longest digit prefix from position i
RECURSIVE atolDigits(_, _, _)
atolDigits(text, i, acc) ==
    IF i > Len(text) \/ text[i] \notin Digits THEN acc
    ELSE atolDigits(text, i + 1, acc * 10 + DigitVal(text[i]))

\* atol(text_.c_str()): optional sign, then digits; 0 when there is no digit
atol(text) ==
    IF Len(text) >= 1 /\ text[1] = "-" THEN 0 - atolDigits(text, 2, 0)
    ELSE IF Len(text) >= 1 /\ text[1] = "+" THEN atolDigits(text, 2, 0)
    ELSE atolDigits(text, 1, 0)

(* ------------------------------ inputs -------------------------------- *)

NameTexts == {<<"a">>, <<"b">>}
NamespaceTexts == {<<>>, <<"n">>}
SizeTexts == {<<"2">>, <<"-", "1">>, <<"x">>}
FrameTypes == {"AVRO_INT", "AVRO_RECORD", "AVRO_ENUM", "AVRO_ARRAY",
               "AVRO_MAP", "AVRO_UNION", "AVRO_FIXED"}

NoCall == [op |-> "none", node |-> NULL, arg |-> NULL, text |-> <<>>, ret |-> NULL, val |-> "none"]

(* --------------------------- CompilerContext -------------------------- *)

Init ==
    /\ stack_ = <<>>
    /\ namespaceStack_ = <<>>
    /\ root_ = NULL
    /\ nodes = <<>>
    /\ error = NoError
    /\ events = 0
    /\ pushDepth = <<>>
    /\ last = NoCall
    /\ owners = {}
    /\ alive = {}
    /\ passed = <<>>

Top == stack_[Len(stack_)]
Front(s) == SubSeq(s, 1, Len(s) - 1)
\* stack_.front() written where stack_.back() is meant
SetTop_Bottom(s, f) == [s EXCEPT ![1] = f]
SetTop(s, f) == [s EXCEPT ![Len(s)] = f]

\* the parser delivers an event: the compilation has not failed
\* the events one compilation may deliver: a record declaration of
\* MaxDeclared fields takes 5 events and 4 for each field
EventBudget == IF last.op = "record" THEN 5 + 4 * MaxDeclared ELSE MaxEvents
Accepting == error = NoError /\ events < EventBudget
\* every event but startType() works on stack_.back()
OnTop == Accepting /\ stack_ # <<>>

\* add() without its stack_.empty() test: the node always becomes the root
add_AlwaysRoot(stack, root, id) ==
    [ok |-> TRUE, err |-> NoError, stack |-> stack, root |-> id]

\* CompilerContext::add
add(stack, root, id) ==
    IF stack = <<>>
    THEN [ok |-> TRUE, err |-> NoError, stack |-> stack, root |-> id]
    ELSE LET r == addNode(stack[Len(stack)], id)
         IN  [ok |-> r.ok, err |-> r.err, stack |-> SetTop(stack, r.frame), root |-> root]

startType ==
    /\ Accepting
    /\ Len(stack_) < MaxDepth
    /\ stack_' = Append(stack_, CompilerNode)
    /\ pushDepth' = Append(pushDepth, Len(namespaceStack_))
    /\ events' = events + 1
    /\ UNCHANGED <<namespaceStack_, root_, nodes, error, last, owners, alive, passed>>

\* whether stopType() pops the namespace stack for the node it built
PopsNamespace(node) == node.type \in NamedTypes /\ getNamespace(node) # <<>>

\* stopType() without its stack_.pop_back(): the node goes to its own frame
stopType_KeepsFrame ==
    /\ OnTop
    /\ events' = events + 1
    /\ UNCHANGED <<last, owners, alive, passed>>
    /\ LET built == nodeFromCompilerNode(Top, Len(nodes))
       IN  IF ~built.ok
           THEN /\ error' = built.err
                /\ UNCHANGED <<stack_, namespaceStack_, root_, nodes, pushDepth>>
           ELSE LET node == built.new[Len(built.new)]
                    id == Len(nodes) + Len(built.new)
                    placed == add(stack_, root_, id)
                IN  /\ namespaceStack_' = IF PopsNamespace(node)
                                          THEN Front(namespaceStack_)
                                          ELSE namespaceStack_
                    /\ pushDepth' = pushDepth
                    /\ stack_' = placed.stack
                    /\ root_' = placed.root
                    /\ error' = placed.err
                    /\ nodes' = IF placed.ok THEN nodes \o built.new ELSE nodes

\* stopType() that pops the frame before it builds the node from it
stopType_PopsFirst ==
    /\ OnTop
    /\ events' = events + 1
    /\ UNCHANGED <<last, owners, alive, passed>>
    /\ LET built == nodeFromCompilerNode(Top, Len(nodes))
       IN  IF ~built.ok
           THEN /\ error' = built.err
                /\ stack_' = Front(stack_)
                /\ pushDepth' = Front(pushDepth)
                /\ UNCHANGED <<namespaceStack_, root_, nodes>>
           ELSE LET node == built.new[Len(built.new)]
                    id == Len(nodes) + Len(built.new)
                    placed == add(Front(stack_), root_, id)
                IN  /\ namespaceStack_' = IF PopsNamespace(node)
                                          THEN Front(namespaceStack_)
                                          ELSE namespaceStack_
                    /\ pushDepth' = Front(pushDepth)
                    /\ stack_' = placed.stack
                    /\ root_' = placed.root
                    /\ error' = placed.err
                    /\ nodes' = IF placed.ok THEN nodes \o built.new ELSE nodes

stopType ==
    /\ OnTop
    /\ events' = events + 1
    /\ UNCHANGED <<last, owners, alive, passed>>
    /\ LET built == nodeFromCompilerNode(Top, Len(nodes))
       IN  IF ~built.ok
           THEN /\ error' = built.err
                /\ UNCHANGED <<stack_, namespaceStack_, root_, nodes, pushDepth>>
           ELSE LET node == built.new[Len(built.new)]
                    id == Len(nodes) + Len(built.new)
                    placed == add(Front(stack_), root_, id)
                IN  /\ namespaceStack_' = IF PopsNamespace(node)
                                          THEN Front(namespaceStack_)
                                          ELSE namespaceStack_
                    /\ pushDepth' = Front(pushDepth)
                    /\ stack_' = placed.stack
                    /\ root_' = placed.root
                    /\ error' = placed.err
                    /\ nodes' = IF placed.ok THEN nodes \o built.new ELSE nodes

addType(type) ==
    /\ OnTop
    /\ stack_' = SetTop(stack_, [Top EXCEPT !.type_ = type])
    /\ events' = events + 1
    /\ UNCHANGED <<namespaceStack_, root_, nodes, error, pushDepth, last, owners, alive, passed>>

\* int size = atol(text_): the size texts of the model denote values within int
setSizeAttribute(text) ==
    /\ OnTop
    /\ LET r == SingleAttributeAdd(Top.sizeAttribute_, atol(text))
       IN  /\ stack_' = SetTop(stack_, [Top EXCEPT !.sizeAttribute_ = r.val])
           /\ error' = IF r.ok THEN NoError ELSE "SingleAttribute can only be set once"
    /\ events' = events + 1
    /\ UNCHANGED <<namespaceStack_, root_, nodes, pushDepth, last, owners, alive, passed>>

addNamedType(text) ==
    /\ OnTop
    /\ LET r == SingleAttributeAdd(Top.nameAttribute_, text)
       IN  /\ stack_' = SetTop(stack_, [Top EXCEPT !.type_ = "AVRO_SYMBOLIC",
                                                   !.nameAttribute_ = r.val])
           /\ error' = IF r.ok THEN NoError ELSE "SingleAttribute can only be set once"
    /\ events' = events + 1
    /\ UNCHANGED <<namespaceStack_, root_, nodes, pushDepth, last, owners, alive, passed>>

setNameAttribute(text) ==
    /\ OnTop
    /\ LET r == SingleAttributeAdd(Top.nameAttribute_, text)
       IN  /\ stack_' = SetTop(stack_, [Top EXCEPT !.nameAttribute_ = r.val])
           /\ error' = IF r.ok THEN NoError ELSE "SingleAttribute can only be set once"
    /\ events' = events + 1
    /\ UNCHANGED <<namespaceStack_, root_, nodes, pushDepth, last, owners, alive, passed>>

setNamespaceAttribute(text) ==
    /\ OnTop
    /\ LET r == SingleAttributeAdd(Top.namespaceAttribute_, text)
       IN  /\ stack_' = SetTop(stack_, [Top EXCEPT !.namespaceAttribute_ = r.val])
           /\ error' = IF r.ok THEN NoError ELSE "SingleAttribute can only be set once"
           /\ namespaceStack_' = IF r.ok THEN Append(namespaceStack_, text)
                                 ELSE namespaceStack_
    /\ events' = events + 1
    /\ UNCHANGED <<root_, nodes, pushDepth, last, owners, alive, passed>>

setSymbolsAttribute(text) ==
    /\ OnTop
    /\ stack_' = SetTop(stack_, [Top EXCEPT !.symbolsAttribute_ = Append(@, text)])
    /\ events' = events + 1
    /\ UNCHANGED <<namespaceStack_, root_, nodes, error, pushDepth, last, owners, alive, passed>>

setAttributeType(marker) ==
    /\ OnTop
    /\ stack_' = SetTop(stack_, [Top EXCEPT !.attributeType_ = marker])
    /\ events' = events + 1
    /\ UNCHANGED <<namespaceStack_, root_, nodes, error, pushDepth, last, owners, alive, passed>>

setValuesAttribute == setAttributeType("VALUES")
setTypesAttribute == setAttributeType("TYPES")
setItemsAttribute == setAttributeType("ITEMS")
\* a setFieldsAttribute() that sets the marker of setTypesAttribute()
setFieldsAttribute_AsTypes == setAttributeType("TYPES")
setFieldsAttribute == setAttributeType("FIELDS")

textContainsFieldName(text) ==
    /\ OnTop
    /\ stack_' = SetTop(stack_, [Top EXCEPT !.fieldsNamesAttribute_ = Append(@, text)])
    /\ events' = events + 1
    /\ UNCHANGED <<namespaceStack_, root_, nodes, error, pushDepth, last, owners, alive, passed>>

AddTypeEvent == \E type \in FrameTypes : addType(type)
SetSizeEvent == \E text \in SizeTexts : setSizeAttribute(text)
AddNamedTypeEvent == \E text \in NameTexts : addNamedType(text)
SetNameEvent == \E text \in NameTexts : setNameAttribute(text)
SetNamespaceEvent == \E text \in NamespaceTexts : setNamespaceAttribute(text)
SetSymbolsEvent == \E text \in NameTexts : setSymbolsAttribute(text)
FieldNameEvent == \E text \in NameTexts : textContainsFieldName(text)

Next ==
    \/ startType
    \/ stopType
    \/ AddTypeEvent
    \/ SetSizeEvent
    \/ AddNamedTypeEvent
    \/ SetNameEvent
    \/ SetNamespaceEvent
    \/ SetSymbolsEvent
    \/ setValuesAttribute
    \/ setTypesAttribute
    \/ setItemsAttribute
    \/ setFieldsAttribute
    \/ FieldNameEvent

Spec == Init /\ [][Next]_vars

(* ----------------------- calls on single nodes ------------------------ *)

\* the builder is not running
CtxIdle ==
    /\ stack_ = <<>>
    /\ namespaceStack_ = <<>>
    /\ root_ = NULL
    /\ error = NoError
    /\ events = 0
    /\ pushDepth = <<>>

\* every node of the heap is held by its creator and no Symbolic has a target
AllOwned(h) ==
    /\ owners = 1..Len(h)
    /\ alive = 1..Len(h)
    /\ passed = [i \in 1..Len(h) |-> NULL]

Call(op, node, arg, text, ret, val) ==
    [op |-> op, node |-> node, arg |-> arg, text |-> text, ret |-> ret, val |-> val]

(* ------------------- NodeUnion::isValid (SpecUnion) -------------------- *)

\* branches of one union
MaxBranches == 3

\* the nodes a union may have as branches, each built by its constructor:
\* 1 int, 2 string, 3 null, 4 record n.a, 5 record m.a, 6 record a, 7 enum b,
\* 8 fixed n.b, 9 symbolic a, 10 symbolic n.a, 11 array of int, 12 array of
\* string, 13 map key, 14 map of int, 15 map key, 16 map of string, 17 union [int]
UnionPool ==
    <<NodePrimitive("AVRO_INT"),
      NodePrimitive("AVRO_STRING"),
      NodePrimitive("AVRO_NULL")>>
    \o NodeRecordCtor(<< <<"a">> >>, <<>>, <<>>, << <<"n">> >>).new
    \o NodeRecordCtor(<< <<"a">> >>, <<>>, <<>>, << <<"m">> >>).new
    \o NodeRecordCtor(<< <<"a">> >>, <<>>, <<>>, <<>>).new
    \o NodeEnumCtor(<< <<"b">> >>, << <<"x">> >>, <<>>).new
    \o NodeFixedCtor(<< <<"b">> >>, <<2>>, << <<"n">> >>).new
    \o NodeSymbolicCtor(<< <<"a">> >>).new
    \o NodeSymbolicCtor(<< <<"n", ".", "a">> >>).new
    \o NodeArrayCtor(<<1>>).new
    \o NodeArrayCtor(<<2>>).new
    \o NodeMapCtor(<<1>>, 12).new
    \o NodeMapCtor(<<2>>, 14).new
    \o NodeUnionCtor(<<1>>).new

UnionBranches == {1, 2, 3, 4, 5, 6, 7, 8, 9, 10, 11, 12, 14, 16, 17}

BranchSeqs == UNION {[1..k -> UnionBranches] : k \in 0..MaxBranches}

\* a union of any branches has been constructed
InitUnion ==
    /\ CtxIdle
    /\ \E types \in BranchSeqs : nodes = UnionPool \o NodeUnionCtor(types).new
    /\ AllOwned(nodes)
    /\ last = NoCall

\* isValid() is called on the union
ValidateUnion ==
    /\ last.op = "none"
    /\ last' = Call("isValid", Len(nodes), NULL, <<>>, NULL, isValid(nodes, Len(nodes)))
    /\ UNCHANGED <<ctxVars, nodes, owners, alive, passed>>

NextUnion == ValidateUnion

SpecUnion == InitUnion /\ [][NextUnion]_vars

\* the full name of a named node: namespace + "." + name when it has a namespace
FullName(node) ==
    IF HasNamespaceAttr(node.type) /\ getNamespace(node) # <<>>
    THEN getNamespace(node) \o <<".">> \o SingleAttributeGetText(node.nameAttribute_)
    ELSE SingleAttributeGetText(node.nameAttribute_)

\* the discriminant of a primitive or named branch: the primitive type name, or
\* the full name
Discriminant(node) ==
    IF node.type \in Primitives THEN UnionBranchName(node).val ELSE FullName(node)

TheUnion == nodes[Len(nodes)]
Branch(i) == nodes[TheUnion.leafAttributes_[i]]
BranchCount == Len(TheUnion.leafAttributes_)

PrimitiveOrNamedBranches ==
    \A i \in 1..BranchCount :
        Branch(i).type \in Primitives \cup NamedTypes \cup {"AVRO_SYMBOLIC"}

\* C7: NodeUnion::isValid() is true exactly when the union has a branch and the
\* discriminants of its branches (primitive type name, or full name of a named
\* branch) are pairwise distinct; named branches with one simple name and
\* different namespaces do not collide.
C7_ValidIffDistinctFullNames ==
    (last.op = "isValid" /\ PrimitiveOrNamedBranches)
        => (last.val = "true"
              <=> /\ BranchCount >= 1
                  /\ \A i, j \in 1..BranchCount :
                        i # j => Discriminant(Branch(i)) # Discriminant(Branch(j)))

\* C8: isValid() of a union that has a union as a direct branch completes with
\* the result false.
C8_NestedUnionIsFalse ==
    (last.op = "isValid" /\ \E i \in 1..BranchCount : Branch(i).type = "AVRO_UNION")
        => last.val = "false"

\* two branches of the union are arrays, or two are maps
TwoOfKind(type) ==
    \E i, j \in 1..BranchCount : i # j /\ Branch(i).type = type /\ Branch(j).type = type

\* a Symbolic branch and a Record, Enum or Fixed branch have one name()
SymbolicMeetsNamed ==
    \E i, j \in 1..BranchCount :
        /\ Branch(i).type = "AVRO_SYMBOLIC"
        /\ Branch(j).type \in NamedTypes
        /\ name(Branch(i)).val = name(Branch(j)).val

NoUnionBranch == \A i \in 1..BranchCount : Branch(i).type # "AVRO_UNION"

ArrayOrMapBranches ==
    \A i \in 1..BranchCount : Branch(i).type \in {"AVRO_ARRAY", "AVRO_MAP"}

\* C27: union validation gives every array branch the discriminant "array" and
\* every map branch the discriminant "map": a union with two array branches
\* (or two map branches) is invalid whatever their item or value types, while
\* one array and one map do not collide; a Symbolic branch collides with a
\* Record, Enum or Fixed branch whose name() equals the name of the Symbolic.
\* isValid() is never true of such a union, and is false when no branch is
\* itself a union.
C27_ArrayMapSymbolicCollide ==
    last.op = "isValid"
        => /\ (TwoOfKind("AVRO_ARRAY") \/ TwoOfKind("AVRO_MAP") \/ SymbolicMeetsNamed)
                => (last.val # "true" /\ (NoUnionBranch => last.val = "false"))
           /\ (ArrayOrMapBranches /\ BranchCount >= 1)
                => (last.val = "true"
                      <=> ~TwoOfKind("AVRO_ARRAY") /\ ~TwoOfKind("AVRO_MAP"))

\* the union of an array of int and an array of string was found invalid
C27_Witness ==
    /\ last.op = "isValid" /\ last.val = "false"
    /\ TheUnion.leafAttributes_ = <<11, 12>>

(* ---------------------- doAddName (SpecNames) ------------------------- *)

\* names held by one node
MaxNames == 2

LeafNameTexts == {<<"a">>, <<"b">>, <<"c">>}

\* doAddName that appends the name before it asks the index
doAddName_AppendsFirst(node, text) ==
    LET r == NameIndexAdd(node.nameIndex_, text, Len(node.leafNameAttributes_))
    IN  [ok |-> r.ok,
         err |-> IF r.ok THEN NoError ELSE "Cannot add duplicate name",
         node |-> [node EXCEPT !.nameIndex_ = r.idx,
                               !.leafNameAttributes_ = Append(@, text)]]

\* NodeImpl::doAddName: the node as the call leaves it, and whether it threw
doAddName(node, text) ==
    LET r == NameIndexAdd(node.nameIndex_, text, Len(node.leafNameAttributes_))
    IN  IF ~r.ok
        THEN [ok |-> FALSE, err |-> "Cannot add duplicate name", node |-> node]
        ELSE [ok |-> TRUE, err |-> NoError,
              node |-> [node EXCEPT !.nameIndex_ = r.idx,
                                    !.leafNameAttributes_ = Append(@, text)]]

\* a record and an enum, default-constructed
InitNames ==
    /\ CtxIdle
    /\ nodes = <<NodeImplDefault("AVRO_RECORD"), NodeImplDefault("AVRO_ENUM")>>
    /\ AllOwned(nodes)
    /\ last = NoCall

NameHeld(node, text) ==
    \E i \in 1..Len(node.leafNameAttributes_) : node.leafNameAttributes_[i] = text

\* addName(text) on node id: a new name while the node has room, or a name it holds
AddName(id, text) ==
    /\ HasLeafNames(nodes[id].type)
    /\ Len(nodes[id].leafNameAttributes_) < MaxNames \/ NameHeld(nodes[id], text)
    /\ LET r == doAddName(nodes[id], text)
       IN  /\ nodes' = [nodes EXCEPT ![id] = r.node]
           /\ last' = Call("addName", id, NULL, text, NULL, r.err)
    /\ UNCHANGED <<ctxVars, owners, alive, passed>>

AddNameCall == \E id \in 1..Len(nodes), text \in LeafNameTexts : AddName(id, text)

NextNames == AddNameCall

SpecNames == InitNames /\ [][NextNames]_vars

\* C5: adding a name the node already holds fails with the duplicate-name error
\* and inserts nothing: the name list, its length and the name index, with the
\* index of the first occurrence, are as before the call.
C5_DuplicateInsertsNothing ==
    [][(last'.op = "addName" /\ NameHeld(nodes[last'.node], last'.text))
          => (nodes' = nodes /\ last'.val = "Cannot add duplicate name")]_vars

\* a name was refused on a node that holds it
C5_Witness ==
    /\ last.op = "addName"
    /\ last.val = "Cannot add duplicate name"
    /\ NameHeld(nodes[last.node], last.text)

(* --------------------------- NodeMap (SpecMap) ------------------------- *)

\* maps built, and children one map is given
MaxMaps == 2
MaxLeaves == 3

\* the value types at hand: long, string, int
MapValuePool ==
    <<NodePrimitive("AVRO_LONG"), NodePrimitive("AVRO_STRING"), NodePrimitive("AVRO_INT")>>

InitMap ==
    /\ CtxIdle
    /\ nodes = MapValuePool
    /\ AllOwned(nodes)
    /\ last = NoCall

IsMap(id) == nodes[id].type = "AVRO_MAP"
MapCount == Cardinality({id \in 1..Len(nodes) : IsMap(id)})

\* NodeMap(): the string key is the only child.  The key is node base+1.
NodeMapDefaultCtor(base) ==
    [ok |-> TRUE, err |-> NoError,
     new |-> <<NodePrimitive("AVRO_STRING"),
               [NodeImplDefault("AVRO_MAP") EXCEPT !.leafAttributes_ = <<base + 1>>]>>]

\* NodeImpl::doAddLeaf
doAddLeaf(node, leaf) == [node EXCEPT !.leafAttributes_ = Append(@, leaf)]

Grow(new) ==
    /\ nodes' = nodes \o new
    /\ owners' = owners \cup (Len(nodes) + 1)..(Len(nodes) + Len(new))
    /\ alive' = alive \cup (Len(nodes) + 1)..(Len(nodes) + Len(new))
    /\ passed' = passed \o [i \in 1..Len(new) |-> NULL]

NewMap ==
    /\ MapCount < MaxMaps
    /\ Grow(NodeMapDefaultCtor(Len(nodes)).new)
    /\ last' = Call("NodeMap()", Len(nodes) + 2, NULL, <<>>, NULL, NoError)
    /\ UNCHANGED ctxVars

NewMapOf(v) ==
    /\ MapCount < MaxMaps
    /\ Grow(NodeMapCtor(<<v>>, Len(nodes)).new)
    /\ last' = Call("NodeMap(values)", Len(nodes) + 2, v, <<>>, NULL, NoError)
    /\ UNCHANGED ctxVars

AddLeaf(id, v) ==
    /\ IsMap(id)
    /\ Len(nodes[id].leafAttributes_) < MaxLeaves
    /\ nodes' = [nodes EXCEPT ![id] = doAddLeaf(@, v)]
    /\ last' = Call("addLeaf", id, v, <<>>, NULL, NoError)
    /\ UNCHANGED <<ctxVars, owners, alive, passed>>

NewMapOfCall == \E v \in 1..Len(MapValuePool) : NewMapOf(v)
AddLeafCall == \E id \in 1..Len(nodes), v \in 1..Len(MapValuePool) : AddLeaf(id, v)

NextMap == NewMap \/ NewMapOfCall \/ AddLeafCall

SpecMap == InitMap /\ [][NextMap]_vars

\* the key a map constructor creates is the node before the map
IsKeyOf(k, m) ==
    k = m - 1 /\ nodes[k].type = "AVRO_STRING" /\ k \notin 1..Len(MapValuePool)

\* C9: every valid Map node has exactly two children and child 0 is the
\* primitive string key its constructor made, whether the value was appended
\* after NodeMap() or given to NodeMap(values); child 1 is the declared value.
C9_ValidMapKeyFirst ==
    /\ \A m \in 1..Len(nodes) :
          (IsMap(m) /\ isValid(nodes, m) = "true")
              => /\ Len(nodes[m].leafAttributes_) = 2
                 /\ IsKeyOf(nodes[m].leafAttributes_[1], m)
                 /\ nodes[m].leafAttributes_[2] \in 1..Len(MapValuePool)
    /\ last.op = "NodeMap(values)"
          => (isValid(nodes, last.node) = "true"
              /\ nodes[last.node].leafAttributes_[2] = last.arg)
    /\ (last.op = "addLeaf" /\ isValid(nodes, last.node) = "true")
          => nodes[last.node].leafAttributes_[2] = last.arg

\* one valid map of each construction path
C9_Witness ==
    /\ last.op = "addLeaf"
    /\ isValid(nodes, last.node) = "true"
    /\ \E m \in 1..Len(nodes) :
          /\ IsMap(m) /\ m # last.node
          /\ isValid(nodes, m) = "true"

(* ------------------ NodeRecord, NodeEnum (SpecNamed) ------------------- *)

\* records and enums built, and children one record is given
MaxBuilt == 1
MaxFields == 2

Suits == << <<"C", "L", "U", "B", "S">>, <<"D", "I", "A", "M", "O", "N", "D", "S">>,
            <<"H", "E", "A", "R", "T", "S">>, <<"S", "P", "A", "D", "E", "S">> >>

\* the arguments the constructors are given: a name slot, set or not, the
\* children and the name lists
NameSlots == {<<>>, << <<"a">> >>}
FieldLists == <<<<>>, <<1>>, <<1, 1>>>>
FieldNameLists == << <<>>, << <<"a">> >>, << <<"a">>, <<"b">> >>, << <<"a">>, <<"a">> >> >>
SymbolLists == << <<>>, << <<"a">> >>, << <<"a">>, <<"a">> >>, Suits >>

\* NodeImpl::doSetName: nameAttribute_.add(name)
doSetName(node, text) ==
    LET r == SingleAttributeAdd(node.nameAttribute_, text)
    IN  [ok |-> r.ok,
         err |-> IF r.ok THEN NoError ELSE "SingleAttribute can only be set once",
         node |-> [node EXCEPT !.nameAttribute_ = r.val]]

\* an int to be the type of the fields
InitNamed ==
    /\ CtxIdle
    /\ nodes = <<NodePrimitive("AVRO_INT")>>
    /\ AllOwned(nodes)
    /\ last = NoCall

BuiltCount == Len(nodes) - 1

\* the result of a constructor: the node on the heap, or the Exception
Construct(op, built, arg, text) ==
    /\ BuiltCount < MaxBuilt
    /\ IF built.ok
       THEN /\ Grow(built.new)
            /\ last' = Call(op, Len(nodes) + 1, arg, text, NULL, NoError)
       ELSE /\ last' = Call(op, NULL, arg, text, NULL, built.err)
            /\ UNCHANGED <<nodes, owners, alive, passed>>
    /\ UNCHANGED ctxVars

NewRecord == Construct("NodeRecord()", Built(NodeImplDefault("AVRO_RECORD")), NULL, <<>>)
NewEnum == Construct("NodeEnum()", Built(NodeImplDefault("AVRO_ENUM")), NULL, <<>>)

\* NodeRecord(name, fields, fieldsNames, ns); `k` picks the field names
NewRecordOf(nameSlot, f, k) ==
    Construct("NodeRecord(name, fields, fieldsNames, ns)",
              NodeRecordCtor(nameSlot, FieldLists[f], FieldNameLists[k], <<>>),
              k, SingleAttributeGetText(nameSlot))

\* NodeEnum(name, symbols, ns); `k` picks the symbols
NewEnumOf(nameSlot, k) ==
    Construct("NodeEnum(name, symbols, ns)",
              NodeEnumCtor(nameSlot, SymbolLists[k], <<>>),
              k, SingleAttributeGetText(nameSlot))

\* setName(text) on node id
SetName(id, text) ==
    /\ HasNameAttr(nodes[id].type)
    /\ LET r == doSetName(nodes[id], text)
       IN  /\ nodes' = [nodes EXCEPT ![id] = r.node]
           /\ last' = Call("setName", id, NULL, text, NULL, r.err)
    /\ UNCHANGED <<ctxVars, owners, alive, passed>>

\* addLeaf(v) on record id
AddField(id, v) ==
    /\ nodes[id].type = "AVRO_RECORD"
    /\ Len(nodes[id].leafAttributes_) < MaxFields
    /\ nodes' = [nodes EXCEPT ![id] = doAddLeaf(@, v)]
    /\ last' = Call("addLeaf", id, v, <<>>, NULL, NoError)
    /\ UNCHANGED <<ctxVars, owners, alive, passed>>

\* isValid() on node id
IsValidOf(id) ==
    /\ last' = Call("isValid", id, NULL, <<>>, NULL, isValid(nodes, id))
    /\ UNCHANGED <<ctxVars, nodes, owners, alive, passed>>

NewRecordOfCall ==
    \E nameSlot \in NameSlots, f \in 1..Len(FieldLists), k \in 1..Len(FieldNameLists) :
        NewRecordOf(nameSlot, f, k)
NewEnumOfCall == \E nameSlot \in NameSlots, k \in 1..Len(SymbolLists) : NewEnumOf(nameSlot, k)
\* the caller fills the node it constructed last
SetNameCall == \E text \in NameTexts : SetName(Len(nodes), text)
AddFieldCall == AddField(Len(nodes), 1)
AddSymbolCall == \E text \in LeafNameTexts : AddName(Len(nodes), text)
IsValidOfCall == \E id \in 1..Len(nodes) : IsValidOf(id)

NextNamed ==
    \/ NewRecord
    \/ NewEnum
    \/ NewRecordOfCall
    \/ NewEnumOfCall
    \/ SetNameCall
    \/ AddSymbolCall
    \/ AddFieldCall
    \/ IsValidOfCall

SpecNamed == InitNamed /\ [][NextNamed]_vars

IsRecord(id) == nodes[id].type = "AVRO_RECORD"
IsEnum(id) == nodes[id].type = "AVRO_ENUM"

\* C15: every Record node whose isValid() is true has exactly one name, as many
\* children as field names, and pairwise distinct field names, whether it came
\* from NodeRecord(name, fields, fieldsNames, ns) or from NodeRecord() followed
\* by setName, addName and addLeaf; when isValid() was the last call it said so.
C15_ValidRecordShape ==
    \A id \in 1..Len(nodes) :
        (IsRecord(id)
         /\ (isValid(nodes, id) = "true"
              \/ (last.op = "isValid" /\ last.node = id /\ last.val = "true")))
            => /\ Len(nodes[id].nameAttribute_) = 1
               /\ Len(nodes[id].leafAttributes_) = Len(nodes[id].leafNameAttributes_)
               /\ \A i, j \in 1..Len(nodes[id].leafNameAttributes_) :
                     i # j => nodes[id].leafNameAttributes_[i] # nodes[id].leafNameAttributes_[j]

\* a record given its field names by addName was found valid with two fields
C15_Witness ==
    /\ last.op = "isValid" /\ last.val = "true"
    /\ IsRecord(last.node)
    /\ Len(nodes[last.node].leafAttributes_) = 2
    /\ nodes[last.node].leafNameAttributes_ = << <<"b">>, <<"c">> >>

\* C16: NodeEnum::isValid() is true exactly when the enum has exactly one name
\* and at least one symbol; the enum constructed with a name and the symbols
\* CLUBS, DIAMONDS, HEARTS, SPADES holds these 4 symbols in that order and is
\* valid; an enum without a symbol is invalid.
C16_EnumValidity ==
    /\ \A id \in 1..Len(nodes) :
          IsEnum(id) =>
             (isValid(nodes, id) = "true"
                <=> (Len(nodes[id].nameAttribute_) = 1
                     /\ Len(nodes[id].leafNameAttributes_) >= 1))
    /\ (last.op = "isValid" /\ IsEnum(last.node))
          => (last.val = "true"
                <=> (Len(nodes[last.node].nameAttribute_) = 1
                     /\ Len(nodes[last.node].leafNameAttributes_) >= 1))
    /\ (last.op = "NodeEnum(name, symbols, ns)" /\ SymbolLists[last.arg] = Suits
        /\ last.text # <<>>)
          => /\ last.val = NoError
             /\ Len(nodes[last.node].leafNameAttributes_) = 4
             /\ nodes[last.node].leafNameAttributes_ = Suits
             /\ isValid(nodes, last.node) = "true"
    /\ (last.op = "NodeEnum(name, symbols, ns)" /\ SymbolLists[last.arg] = <<>>
        /\ last.val = NoError)
          => isValid(nodes, last.node) = "false"

\* the enum of the four suits was found valid
C16_Witness ==
    /\ last.op = "isValid" /\ last.val = "true"
    /\ IsEnum(last.node)
    /\ nodes[last.node].leafNameAttributes_ = Suits

\* NodeImpl::nameIndex(name, index): nameIndex_.lookup
nameIndex(node, text) ==
    IF NameIndexHas(node.nameIndex_, text)
    THEN [found |-> TRUE, index |-> (CHOOSE p \in node.nameIndex_ : p[1] = text)[2]]
    ELSE [found |-> FALSE, index |-> 0]

\* the names a caller may look up
LookupTexts == LeafNameTexts \cup {Suits[k] : k \in 1..Len(Suits)}

\* C22: after any sequence of accepted and refused name insertions on a record
\* or enum node the name index is positional: looking up nameAt(i) finds i
\* (counted from 0), a name never inserted is not found, and the index holds
\* one entry for each name.
C22_NameIndexPositional ==
    \A id \in 1..Len(nodes) :
        (IsRecord(id) \/ IsEnum(id)) =>
            /\ \A i \in 1..Len(nodes[id].leafNameAttributes_) :
                  nameIndex(nodes[id], nodes[id].leafNameAttributes_[i])
                      = [found |-> TRUE, index |-> i - 1]
            /\ \A text \in LookupTexts :
                  ~NameHeld(nodes[id], text) => ~nameIndex(nodes[id], text).found
            /\ Cardinality(nodes[id].nameIndex_) = Len(nodes[id].leafNameAttributes_)

\* a name was refused on a node that holds two names
C22_Witness ==
    /\ last.op = "addName"
    /\ last.val = "Cannot add duplicate name"
    /\ Len(nodes[last.node].leafNameAttributes_) = 2
    /\ nameIndex(nodes[last.node], last.text).found

(* ------------------------ NodeSymbolic (SpecSym) ----------------------- *)

\* nodes of the heap
MaxNodes == 4

\* a use count in which actualNode_ of a live Symbolic node is a NodePtr, too
UseCount_CountsSymbolic(h, live, held, id) ==
    (IF id \in held THEN 1 ELSE 0)
    + Cardinality({pk \in UNION {{<<p, k>> : k \in 1..Len(h[p].leafAttributes_)} : p \in live} :
                      h[pk[1]].leafAttributes_[pk[2]] = id})
    + Cardinality({p \in live : h[p].actualNode_ = id})

\* how many NodePtr hold node id: the holders outside the heap and the child
\* slots of the nodes still alive
UseCount(h, live, held, id) ==
    (IF id \in held THEN 1 ELSE 0)
    + Cardinality({pk \in UNION {{<<p, k>> : k \in 1..Len(h[p].leafAttributes_)} : p \in live} :
                      h[pk[1]].leafAttributes_[pk[2]] = id})

\* shared_ptr: a node whose use count is zero is destroyed and lets go of its children
RECURSIVE Destroy(_, _, _)
Destroy(h, live, held) ==
    LET dead == {id \in live : UseCount(h, live, held, id) = 0}
    IN  IF dead = {} THEN live ELSE Destroy(h, live \ dead, held)

\* weak_ptr::lock: the node while it is alive, else null
Lock(live, target) == IF target \in live THEN target ELSE NULL

\* NodeSymbolic(name, n)
NodeSymbolicToCtor(nameAttr, n) ==
    Built([NodeImpl("AVRO_SYMBOLIC", nameAttr, <<>>, <<>>, <<>>, <<>>)
               EXCEPT !.actualNode_ = n])

\* setNode that leaves a target already set in place
setNode_KeepsFirst(node, target) ==
    IF node.actualNode_ = NULL THEN [node EXCEPT !.actualNode_ = target] ELSE node

\* NodeSymbolic::setNode
setNode(node, target) == [node EXCEPT !.actualNode_ = target]

\* NodeSymbolic::isSet
isSet(live, node) == Lock(live, node.actualNode_) # NULL

\* NodeSymbolic::getNode
getNode(live, node) ==
    LET n == Lock(live, node.actualNode_)
    IN  IF n = NULL THEN [ok |-> FALSE, err |-> "Could not follow symbol", ret |-> NULL]
        ELSE [ok |-> TRUE, err |-> NoError, ret |-> n]

\* resolveSymbol without its type test: every node is followed as a Symbolic one
resolveSymbol_Unchecked(live, node) == getNode(live, node)

\* resolveSymbol(node)
resolveSymbol(live, node) ==
    IF node.type # "AVRO_SYMBOLIC"
    THEN [ok |-> FALSE, err |-> "Only symbolic nodes may be resolved", ret |-> NULL]
    ELSE getNode(live, node)

\* a record named a and an int, each held by its creator
InitSym ==
    /\ CtxIdle
    /\ nodes = NodeRecordCtor(<< <<"a">> >>, <<>>, <<>>, <<>>).new
               \o <<NodePrimitive("AVRO_INT")>>
    /\ AllOwned(nodes)
    /\ last = NoCall

IsSymbolic(id) == nodes[id].type = "AVRO_SYMBOLIC"

\* NodePtr s(new NodeSymbolic(name))
NewSymbolic(text) ==
    /\ Len(nodes) < MaxNodes
    /\ Grow(NodeSymbolicCtor(<<text>>).new)
    /\ last' = Call("NodeSymbolic(name)", Len(nodes) + 1, NULL, text, NULL, NoError)
    /\ UNCHANGED ctxVars

\* NodePtr s(new NodeSymbolic(name, target))
NewSymbolicTo(text, target) ==
    /\ Len(nodes) < MaxNodes
    /\ target \in alive
    /\ nodes' = nodes \o NodeSymbolicToCtor(<<text>>, target).new
    /\ owners' = owners \cup {Len(nodes) + 1}
    /\ alive' = alive \cup {Len(nodes) + 1}
    /\ passed' = Append(passed, target)
    /\ last' = Call("NodeSymbolic(name, n)", Len(nodes) + 1, target, text, NULL, NoError)
    /\ UNCHANGED ctxVars

SetNode(s, target) ==
    /\ s \in alive /\ IsSymbolic(s)
    /\ target \in alive
    /\ nodes' = [nodes EXCEPT ![s] = setNode(@, target)]
    /\ passed' = [passed EXCEPT ![s] = target]
    /\ last' = Call("setNode", s, target, <<>>, NULL, NoError)
    /\ UNCHANGED <<ctxVars, owners, alive>>

GetNode(s) ==
    /\ s \in alive /\ IsSymbolic(s)
    /\ LET r == getNode(alive, nodes[s])
       IN  last' = Call("getNode", s, NULL, <<>>, r.ret, r.err)
    /\ UNCHANGED <<ctxVars, nodes, owners, alive, passed>>

ResolveSymbol(n) ==
    /\ n \in alive
    /\ LET r == resolveSymbol(alive, nodes[n])
       IN  last' = Call("resolveSymbol", n, NULL, <<>>, r.ret, r.err)
    /\ UNCHANGED <<ctxVars, nodes, owners, alive, passed>>

IsSet(s) ==
    /\ s \in alive /\ IsSymbolic(s)
    /\ last' = Call("isSet", s, NULL, <<>>, NULL, Bool(isSet(alive, nodes[s])))
    /\ UNCHANGED <<ctxVars, nodes, owners, alive, passed>>

\* a holder outside the heap lets go of node id
Release(id) ==
    /\ id \in owners
    /\ owners' = owners \ {id}
    /\ alive' = Destroy(nodes, alive, owners \ {id})
    /\ last' = Call("release", id, NULL, <<>>, NULL, NoError)
    /\ UNCHANGED <<ctxVars, nodes, passed>>

NewSymbolicCall == \E text \in NameTexts : NewSymbolic(text)
NewSymbolicToCall == \E text \in NameTexts, t \in 1..Len(nodes) : NewSymbolicTo(text, t)
SetNodeCall == \E s \in 1..Len(nodes), t \in 1..Len(nodes) : SetNode(s, t)
GetNodeCall == \E s \in 1..Len(nodes) : GetNode(s)
ResolveSymbolCall == \E n \in 1..Len(nodes) : ResolveSymbol(n)
IsSetCall == \E s \in 1..Len(nodes) : IsSet(s)
ReleaseCall == \E id \in 1..Len(nodes) : Release(id)

NextSym ==
    \/ NewSymbolicCall
    \/ NewSymbolicToCall
    \/ SetNodeCall
    \/ GetNodeCall
    \/ ResolveSymbolCall
    \/ IsSetCall
    \/ ReleaseCall

SpecSym == InitSym /\ [][NextSym]_vars

\* the last call followed a Symbolic node
Followed ==
    /\ last.op \in {"getNode", "resolveSymbol"}
    /\ IsSymbolic(last.node)

\* C10: following a Symbolic node returns exactly the node last passed to
\* setNode (or to the constructor) when that node is still alive, and fails with
\* "Could not follow symbol" when no target was ever set; isSet() is true exactly
\* in the first case.
C10_FollowsLastTarget ==
    /\ (Followed /\ passed[last.node] \in alive)
          => (last.val = NoError /\ last.ret = passed[last.node])
    /\ (Followed /\ passed[last.node] = NULL)
          => (last.val = "Could not follow symbol" /\ last.ret = NULL)
    /\ last.op = "isSet"
          => (last.val = "true" <=> passed[last.node] \in alive)

\* a Symbolic node was followed to its target while another one has none
C10_Witness ==
    /\ Followed
    /\ last.ret # NULL
    /\ last.ret = passed[last.node]
    /\ \E s \in 1..Len(nodes) :
          s # last.node /\ IsSymbolic(s) /\ passed[s] = NULL

\* some NodePtr owns node id: a holder outside the heap, or a child slot of a
\* live node
HasOwner(id) ==
    \/ id \in owners
    \/ \E p \in alive : \E k \in 1..Len(nodes[p].leafAttributes_) :
          nodes[p].leafAttributes_[k] = id

\* Symbolic node s was given a target that has since been destroyed
TargetGone(s) == passed[s] # NULL /\ passed[s] \notin alive

\* C11: a Symbolic node never owns its target: a node is alive only while a
\* NodePtr outside the Symbolic nodes owns it, and once the target is gone
\* isSet() is false and following the Symbolic node fails with "Could not
\* follow symbol" and returns no node.
C11_SymbolicNeverOwns ==
    /\ \A id \in alive : HasOwner(id)
    /\ (last.op = "isSet" /\ TargetGone(last.node)) => last.val = "false"
    /\ (Followed /\ TargetGone(last.node))
          => (last.val = "Could not follow symbol" /\ last.ret = NULL)

\* a Symbolic node was followed after the last owner of its target let go
C11_Witness ==
    /\ Followed
    /\ TargetGone(last.node)
    /\ last.val = "Could not follow symbol"

(* -------------------- setLeafToSymbolic (SpecPatch) -------------------- *)

\* Symbolic nodes made by setLeafToSymbolic
MaxPatches == 2

PatchFailed(msg, h) == [ok |-> FALSE, err |-> msg, h |-> h]

NameMismatch == "Symbolic name does not match the name of the schema it references"

\* setLeafToSymbolic that stores the target itself in the child slot
setLeafToSymbolic_Strong(h, p, index, target) ==
    [ok |-> TRUE, err |-> NoError,
     h |-> [h EXCEPT ![p].leafAttributes_[index] = target]]

\* setLeafToSymbolic that adds the new Symbolic node as one more child and
\* leaves the child at index in its slot
setLeafToSymbolic_Appends(h, p, index, target) ==
    IF ~HasLeaves(h[p].type)
    THEN PatchFailed("Cannot change leaf node for nonexistent leaf", h)
    ELSE LET replaceNode == h[h[p].leafAttributes_[index]]
             ns == namespaceGet(h[target])
             nm == name(h[target])
             fullname == IF ns.val # <<>> THEN ns.val \o <<".">> \o nm.val ELSE nm.val
             old == name(replaceNode)
             symbol == [NodeImplDefault("AVRO_SYMBOLIC")
                           EXCEPT !.nameAttribute_ = <<fullname>>,
                                  !.actualNode_ = target]
         IN  IF ~ns.ok \/ ~nm.ok \/ ~old.ok THEN PatchFailed(NoAttributeError, h)
             ELSE IF old.val # fullname THEN PatchFailed(NameMismatch, h)
             ELSE [ok |-> TRUE, err |-> NoError,
                   h |-> Append([h EXCEPT ![p].leafAttributes_ = Append(@, Len(h) + 1)],
                                symbol)]

\* NodeImpl::setLeafToSymbolic(index, node) on node p of heap h; `index` counts
\* from 1.  The new Symbolic node is appended to the heap and takes the child
\* slot; the NodePtr of the old child leaves the slot.
setLeafToSymbolic(h, p, index, target) ==
    IF ~HasLeaves(h[p].type)
    THEN PatchFailed("Cannot change leaf node for nonexistent leaf", h)
    ELSE LET replaceNode == h[h[p].leafAttributes_[index]]
             ns == namespaceGet(h[target])
             nm == name(h[target])
             fullname == IF ns.val # <<>> THEN ns.val \o <<".">> \o nm.val ELSE nm.val
             old == name(replaceNode)
             symbol == [NodeImplDefault("AVRO_SYMBOLIC")
                           EXCEPT !.nameAttribute_ = <<fullname>>,
                                  !.actualNode_ = target]
         IN  IF ~ns.ok \/ ~nm.ok \/ ~old.ok THEN PatchFailed(NoAttributeError, h)
             ELSE IF old.val # fullname THEN PatchFailed(NameMismatch, h)
             ELSE [ok |-> TRUE, err |-> NoError,
                   h |-> Append([h EXCEPT ![p].leafAttributes_[index] = Len(h) + 1],
                                symbol)]

\* 1 int, 2 symbolic a, 3 symbolic n.a, 4 record a {f: a, g: int},
\* 5 record n.a {f: n.a}, 6 record b {f: record n.a, g: record a},
\* 7 array of a.  The records and the array are held by their creator, the
\* other nodes by their parents only.
PatchPool ==
    <<NodePrimitive("AVRO_INT")>>
    \o NodeSymbolicCtor(<< <<"a">> >>).new
    \o NodeSymbolicCtor(<< <<"n", ".", "a">> >>).new
    \o NodeRecordCtor(<< <<"a">> >>, <<2, 1>>, << <<"f">>, <<"g">> >>, <<>>).new
    \o NodeRecordCtor(<< <<"a">> >>, <<3>>, << <<"f">> >>, << <<"n">> >>).new
    \o NodeRecordCtor(<< <<"b">> >>, <<5, 4>>, << <<"f">>, <<"g">> >>, <<>>).new
    \o NodeArrayCtor(<<2>>).new

InitPatch ==
    /\ CtxIdle
    /\ nodes = PatchPool
    /\ owners = {4, 5, 6, 7}
    /\ alive = 1..Len(nodes)
    /\ passed = [i \in 1..Len(nodes) |-> NULL]
    /\ last = NoCall

\* p->setLeafToSymbolic(index, target)
SetLeafToSymbolic(p, index, target) ==
    /\ p \in alive /\ target \in alive
    /\ Len(nodes) < Len(PatchPool) + MaxPatches
    /\ HasLeaves(nodes[p].type) => index <= Len(nodes[p].leafAttributes_)
    /\ LET r == setLeafToSymbolic(nodes, p, index, target)
       IN  /\ nodes' = r.h
           /\ passed' = IF r.ok THEN Append(passed, target) ELSE passed
           /\ alive' = IF r.ok THEN Destroy(r.h, alive \cup {Len(r.h)}, owners) ELSE alive
           /\ last' = Call("setLeafToSymbolic", p, target, <<>>, index, r.err)
    /\ UNCHANGED <<ctxVars, owners>>

SetLeafToSymbolicCall ==
    \E p \in 1..Len(nodes), index \in 1..2, target \in 1..Len(nodes) :
        SetLeafToSymbolic(p, index, target)

NextPatch ==
    \/ SetLeafToSymbolicCall
    \/ ResolveSymbolCall
    \/ ReleaseCall

SpecPatch == InitPatch /\ [][NextPatch]_vars

\* the node in child slot `index` of node p
Child(h, p, index) == h[p].leafAttributes_[index]

\* a setLeafToSymbolic step on a parent with children, for a Record, Enum or
\* Fixed target, whose child slot holds a named or Symbolic node
PatchStep ==
    /\ last'.op = "setLeafToSymbolic"
    /\ HasLeaves(nodes[last'.node].type)
    /\ nodes[last'.arg].type \in NamedTypes
    /\ nodes[Child(nodes, last'.node, last'.ret)].type \in NamedTypes \cup {"AVRO_SYMBOLIC"}

\* C13: setLeafToSymbolic(index, target) succeeds exactly when the child at index
\* denotes the full name of target (a Symbolic child by its name, a named child
\* by its namespace + "." + name), else it fails with the name-mismatch error;
\* after success the child at index is a Symbolic node that resolves to target.
C13_PatchIffSameFullName ==
    [][PatchStep =>
          LET p == last'.node
              index == last'.ret
              target == last'.arg
          IN  IF FullName(nodes[Child(nodes, p, index)]) = FullName(nodes[target])
              THEN /\ last'.val = NoError
                   /\ nodes'[Child(nodes', p, index)].type = "AVRO_SYMBOLIC"
                   /\ resolveSymbol(alive', nodes'[Child(nodes', p, index)]).ret = target
              ELSE last'.val = NameMismatch]_vars

\* the nodes the child slots of the live nodes of S hold
Children(S) ==
    UNION {{nodes[p].leafAttributes_[k] : k \in 1..Len(nodes[p].leafAttributes_)}
              : p \in S \cap alive}

\* the nodes reached from S along child slots, S included
RECURSIVE Owned(_)
Owned(S) ==
    LET more == S \cup Children(S)
    IN  IF more = S THEN S ELSE Owned(more)

\* a record whose child slot holds a Symbolic node set to the record itself
SelfReferring(r) ==
    /\ nodes[r].type = "AVRO_RECORD"
    /\ \E k \in 1..Len(nodes[r].leafAttributes_) :
          LET child == nodes[Child(nodes, r, k)]
          IN  child.type = "AVRO_SYMBOLIC" /\ child.actualNode_ = r

\* C14: after setLeafToSymbolic has backpatched the field of a record that
\* refers to the record itself, the owning references hold no cycle (no live
\* node is reached from its own child slots: the way back is the weak reference
\* of the Symbolic node), and a node lives only while a holder outside the tree
\* reaches it, so the record is destroyed once its outside owners let go.
C14_NoOwnershipCycle ==
    /\ \A id \in alive : id \notin Owned(Children({id}))
    /\ alive = Owned(owners)
    /\ \A r \in 1..Len(nodes) :
          (SelfReferring(r) /\ r \notin Owned(owners)) => r \notin alive

\* a record backpatched to refer to itself was destroyed when its owners let go
C14_Witness ==
    /\ last.op = "release"
    /\ \E r \in 1..Len(nodes) : SelfReferring(r) /\ r \notin alive

\* C26: setLeafToSymbolic(index, target) changes only the child slot at index.
\* On success the parent keeps its child count, every other child, its names
\* and its other attributes; the new child is a new, valid Symbolic node whose
\* name is the full name of target; no other node changes, target included
\* (when target is the parent itself, it changes in that child slot alone).  On
\* failure (name mismatch, or a parent kind without children) no node changes:
\* the child at index is the one it was.
C26_OnlyChildSlot ==
    [][last'.op = "setLeafToSymbolic" =>
          LET p == last'.node
              index == last'.ret
              target == last'.arg
          IN  IF last'.val = NoError
              THEN /\ Len(nodes') = Len(nodes) + 1
                   /\ Child(nodes', p, index) = Len(nodes')
                   /\ nodes'[p] = [nodes[p] EXCEPT !.leafAttributes_[index] = Len(nodes')]
                   /\ Len(nodes'[p].leafAttributes_) = Len(nodes[p].leafAttributes_)
                   /\ \A id \in 1..Len(nodes) : id # p => nodes'[id] = nodes[id]
                   /\ nodes'[Len(nodes')].type = "AVRO_SYMBOLIC"
                   /\ isValid(nodes', Len(nodes')) = "true"
                   /\ name(nodes'[Len(nodes')]).val = FullName(nodes[target])
              ELSE nodes' = nodes]_vars

\* the second field of record b, the record a, was replaced by a Symbolic node
\* for a; the first field is the child it was
C26_Witness ==
    /\ last.op = "setLeafToSymbolic" /\ last.val = NoError
    /\ last.node = 6 /\ last.ret = 2 /\ last.arg = 4
    /\ nodes[Child(nodes, 6, 2)].type = "AVRO_SYMBOLIC"
    /\ Child(nodes, 6, 1) = 5

(* ------------------ accessors by kind (SpecKinds) --------------------- *)

\* a node of every kind: 1..8 the primitives, 9 record n.a, 10 record a,
\* 11 record (), 12 enum b, 13 enum (), 14 fixed n.b of size 2, 15 fixed (),
\* 16 symbolic a, 17 symbolic a set to node 10, 18 symbolic (), 19 array of int,
\* 20 map key, 21 map of int, 22 union [int, string]
KindPool ==
    <<NodePrimitive("AVRO_STRING"), NodePrimitive("AVRO_BYTES"), NodePrimitive("AVRO_INT"),
      NodePrimitive("AVRO_LONG"), NodePrimitive("AVRO_FLOAT"), NodePrimitive("AVRO_DOUBLE"),
      NodePrimitive("AVRO_BOOL"), NodePrimitive("AVRO_NULL")>>
    \o NodeRecordCtor(<< <<"a">> >>, <<3>>, << <<"b">> >>, << <<"n">> >>).new
    \o NodeRecordCtor(<< <<"a">> >>, <<>>, <<>>, <<>>).new
    \o <<NodeImplDefault("AVRO_RECORD")>>
    \o NodeEnumCtor(<< <<"b">> >>, << <<"x">> >>, <<>>).new
    \o <<NodeImplDefault("AVRO_ENUM")>>
    \o NodeFixedCtor(<< <<"b">> >>, <<2>>, << <<"n">> >>).new
    \o <<NodeImplDefault("AVRO_FIXED")>>
    \o NodeSymbolicCtor(<< <<"a">> >>).new
    \o NodeSymbolicToCtor(<< <<"a">> >>, 10).new
    \o <<NodeImplDefault("AVRO_SYMBOLIC")>>
    \o NodeArrayCtor(<<3>>).new
    \o NodeMapCtor(<<3>>, 19).new
    \o NodeUnionCtor(<<3, 1>>).new

InitKinds ==
    /\ CtxIdle
    /\ nodes = KindPool
    /\ owners = 1..Len(nodes)
    /\ alive = 1..Len(nodes)
    /\ passed = [i \in 1..Len(nodes) |-> nodes[i].actualNode_]
    /\ last = NoCall

\* n->name()
NameOf(n) ==
    /\ LET r == name(nodes[n])
       IN  last' = Call("name", n, NULL, r.val, NULL, IF r.ok THEN NoError ELSE NoAttributeError)
    /\ UNCHANGED <<ctxVars, nodes, owners, alive, passed>>

\* n->getNamespace()
NamespaceOf(n) ==
    /\ LET r == namespaceGet(nodes[n])
       IN  last' = Call("getNamespace", n, NULL, r.val, NULL,
                        IF r.ok THEN NoError ELSE NoAttributeError)
    /\ UNCHANGED <<ctxVars, nodes, owners, alive, passed>>

\* n->fixedSize()
FixedSizeOf(n) ==
    /\ LET r == fixedSize(nodes[n])
       IN  last' = Call("fixedSize", n, NULL, <<>>, r.val,
                        IF r.ok THEN NoError ELSE NoAttributeError)
    /\ UNCHANGED <<ctxVars, nodes, owners, alive, passed>>

\* n->hasName()
HasNameOf(n) ==
    /\ last' = Call("hasName", n, NULL, <<>>, NULL, Bool(hasName(nodes[n])))
    /\ UNCHANGED <<ctxVars, nodes, owners, alive, passed>>

\* n->hasNamespace()
HasNamespaceOf(n) ==
    /\ last' = Call("hasNamespace", n, NULL, <<>>, NULL, Bool(hasNamespace(nodes[n])))
    /\ UNCHANGED <<ctxVars, nodes, owners, alive, passed>>

NameOfCall == \E n \in 1..Len(nodes) : NameOf(n)
NamespaceOfCall == \E n \in 1..Len(nodes) : NamespaceOf(n)
FixedSizeOfCall == \E n \in 1..Len(nodes) : FixedSizeOf(n)
HasNameOfCall == \E n \in 1..Len(nodes) : HasNameOf(n)
HasNamespaceOfCall == \E n \in 1..Len(nodes) : HasNamespaceOf(n)

NextKinds ==
    \/ NameOfCall
    \/ NamespaceOfCall
    \/ FixedSizeOfCall
    \/ HasNameOfCall
    \/ HasNamespaceOfCall
    \/ ResolveSymbolCall

SpecKinds == InitKinds /\ [][NextKinds]_vars

\* C12: resolveSymbol on a node of any kind other than Symbolic fails with
\* "Only symbolic nodes may be resolved" and returns no node.
C12_OnlySymbolicResolved ==
    (last.op = "resolveSymbol" /\ nodes[last.node].type # "AVRO_SYMBOLIC")
        => (last.val = "Only symbolic nodes may be resolved" /\ last.ret = NULL)

\* resolveSymbol was refused on a record
C12_Witness ==
    /\ last.op = "resolveSymbol"
    /\ nodes[last.node].type = "AVRO_RECORD"
    /\ last.val = "Only symbolic nodes may be resolved"

\* the kinds on which the claim's table says an accessor fails
NameFailsOn == Primitives \cup {"AVRO_ARRAY", "AVRO_MAP", "AVRO_UNION"}
NamespaceFailsOn == Primitives \cup {"AVRO_SYMBOLIC", "AVRO_ARRAY", "AVRO_MAP", "AVRO_UNION"}
FixedSizeFailsOn == KnownTypes \ {"AVRO_FIXED"}

LastNode == nodes[last.node]

\* C19: name() fails on Primitive, Array, Map and Union nodes, getNamespace()
\* on Primitive, Symbolic, Array, Map and Union nodes, fixedSize() on every kind
\* but Fixed; on the other kinds the accessor succeeds and returns the single
\* stored value.
C19_AccessorsFollowKindTable ==
    /\ last.op = "name" =>
          /\ LastNode.type \in NameFailsOn <=> last.val # NoError
          /\ (last.val = NoError /\ Len(LastNode.nameAttribute_) = 1)
                => last.text = LastNode.nameAttribute_[1]
    /\ last.op = "getNamespace" =>
          /\ LastNode.type \in NamespaceFailsOn <=> last.val # NoError
          /\ (last.val = NoError /\ Len(LastNode.namespaceAttribute_) = 1)
                => last.text = LastNode.namespaceAttribute_[1]
    /\ last.op = "fixedSize" =>
          /\ LastNode.type \in FixedSizeFailsOn <=> last.val # NoError
          /\ (last.val = NoError /\ Len(LastNode.sizeAttribute_) = 1)
                => last.ret = LastNode.sizeAttribute_[1]

\* getNamespace() was refused on a Symbolic node that has a name
C19_Witness ==
    /\ last.op = "getNamespace"
    /\ LastNode.type = "AVRO_SYMBOLIC"
    /\ Len(LastNode.nameAttribute_) = 1
    /\ last.val = NoAttributeError

(* ------------------- properties of the builder (Spec) ------------------ *)

Slots == {"fieldsAttribute_", "itemsAttribute_", "valuesAttribute_", "typesAttribute_"}
FrameChildren(f) ==
    f.fieldsAttribute_ \o f.itemsAttribute_ \o f.valuesAttribute_ \o f.typesAttribute_

\* a step that pops the top frame: only stopType() does
FramePopped == stack_ # <<>> /\ Len(stack_') = Len(stack_) - 1

\* a Record, Enum or Fixed frame on which setNamespaceAttribute() was called
NamespacedNamedFrame(f) == f.type_ \in NamedTypes /\ Len(f.namespaceAttribute_) = 1

\* C1: after stopType() finishes a Record, Enum or Fixed frame on which
\* setNamespaceAttribute() was called, the namespace stack is as deep as it was
\* when startType() pushed that frame, whatever the namespace text.
C1_DepthRestored ==
    [][(FramePopped /\ NamespacedNamedFrame(Top))
          => Len(namespaceStack_') = pushDepth[Len(pushDepth)]]_vars

\* the namespaces set on the open frames, bottom frame first
RECURSIVE OpenNamespaces(_)
OpenNamespaces(stack) ==
    IF stack = <<>> THEN <<>>
    ELSE OpenNamespaces(Front(stack)) \o stack[Len(stack)].namespaceAttribute_

\* C2: at every point of a compilation the namespace stack holds, in nesting
\* order, exactly the namespaces set on the frames that are still open.
C2_StackMirrorsOpenFrames ==
    error = NoError => namespaceStack_ = OpenNamespaces(stack_)

\* the places that hold node id: the root, or slot s of frame i at position k
Places(stack, root, id) ==
    (IF root = id THEN {<<0, "root_", 0>>} ELSE {})
    \cup UNION {UNION {{<<i, s, k>> : k \in {j \in 1..Len(stack[i][s]) : stack[i][s][j] = id}}
                          : s \in Slots} : i \in 1..Len(stack)}

\* the node built by a stopType() step is the newest of the heap; it is in one
\* place: the root when no frame is left, else one slot of the new top frame
StopPlacesNode ==
    LET id == Len(nodes')
        rest == Front(stack_)
    IN  /\ Len(nodes') > Len(nodes)
        /\ Cardinality(Places(stack_', root_', id)) = 1
        /\ IF rest = <<>>
           THEN root_' = id /\ stack_' = <<>>
           ELSE /\ root_' = root_
                /\ Len(stack_') = Len(rest)
                /\ Front(stack_') = Front(rest)
                /\ \E s \in Slots :
                      stack_'[Len(rest)] = [rest[Len(rest)] EXCEPT ![s] = Append(@, id)]

\* C3: stopType() pops exactly one frame and, when it completes, places the node
\* built from it in exactly one place: appended to the new top frame when a frame
\* is left, stored as the root when none is.  The root is never assigned while a
\* frame is still open.
C3_PlacedOnce ==
    [][/\ Len(stack_') < Len(stack_)
            => (Len(stack_') = Len(stack_) - 1 /\ (error' = NoError => StopPlacesNode))
       /\ root_' # root_ => stack_' = <<>>]_vars

\* a finished child sits in a slot of its still open parent frame
C3_Witness == error = NoError /\ stack_ # <<>> /\ FrameChildren(Top) # <<>>

\* the nodes a frame or the root holds
PlacedNodes ==
    (IF root_ = NULL THEN {} ELSE {root_})
    \cup UNION {{FrameChildren(stack_[i])[k] : k \in 1..Len(FrameChildren(stack_[i]))}
                   : i \in 1..Len(stack_)}

\* C4: a node whose isValid() is false is never appended to a parent frame nor
\* stored as the root.
C4_OnlyValidPlaced == \A id \in PlacedNodes : isValid(nodes, id) = "true"

HasDuplicate(names) == \E i, j \in 1..Len(names) : i < j /\ names[i] = names[j]

\* an enum frame holding a symbol twice, or a record frame holding a field name twice
DuplicateFrame(f) ==
    \/ f.type_ = "AVRO_ENUM" /\ HasDuplicate(f.symbolsAttribute_)
    \/ f.type_ = "AVRO_RECORD" /\ HasDuplicate(f.fieldsNamesAttribute_)

\* C6: an enum frame that holds a symbol twice (a record frame that holds a field
\* name twice) never yields a node: no step pops it, sets the root or builds a
\* node from it, and stopType() on it fails with the duplicate-name error.
C6_DuplicateAborts ==
    [][(stack_ # <<>> /\ DuplicateFrame(Top))
          => /\ Len(stack_') >= Len(stack_)
             /\ root_' = root_
             /\ nodes' = nodes
             /\ stopType => error' = "Cannot add duplicate name"]_vars

\* stopType() was refused on an enum frame holding a symbol twice
C6_Witness ==
    /\ stack_ # <<>>
    /\ Top.type_ = "AVRO_ENUM" /\ HasDuplicate(Top.symbolsAttribute_)
    /\ error = "Cannot add duplicate name"

\* a size text that is a non-negative decimal integer, and the value it denotes
WellFormedSize(text) == Len(text) >= 1 /\ \A i \in 1..Len(text) : text[i] \in Digits
Denoted(text) == atolDigits(text, 1, 0)

\* C17: setSizeAttribute() accepts a size text only when it is a well-formed
\* non-negative integer (any other text fails the compilation) and then stores
\* the value the text denotes; every valid Fixed node has exactly one name and
\* exactly one size, which is not negative.
C17_SizeWellFormed ==
    [][/\ \A text \in SizeTexts :
             setSizeAttribute(text) =>
                IF WellFormedSize(text)
                THEN error' = NoError => Top'.sizeAttribute_ = <<Denoted(text)>>
                ELSE error' # NoError
       /\ \A id \in 1..Len(nodes') :
             (nodes'[id].type = "AVRO_FIXED" /\ isValid(nodes', id) = "true")
                => /\ Len(nodes'[id].nameAttribute_) = 1
                   /\ Len(nodes'[id].sizeAttribute_) = 1
                   /\ nodes'[id].sizeAttribute_[1] >= 0]_vars

\* the text a reference is recorded under: qualified with the innermost
\* namespace in scope, unchanged when none is in scope
Qualified(nsStack, text) ==
    IF nsStack # <<>> /\ nsStack[Len(nsStack)] # <<>>
    THEN nsStack[Len(nsStack)] \o <<".">> \o text
    ELSE text

\* C18: addNamedType() sets the kind of the current frame to Symbolic and
\* records as its name the referenced text qualified with the namespace on top
\* of the namespace stack; the text is recorded unchanged only when no
\* namespace is in scope.
C18_NamedTypeQualified ==
    [][\A text \in NameTexts :
          (addNamedType(text) /\ error' = NoError)
             => /\ Top'.type_ = "AVRO_SYMBOLIC"
                /\ Top'.nameAttribute_ = <<Qualified(namespaceStack_, text)>>]_vars

\* the builder events other than startType() and stopType()
AttributeEvent ==
    \/ AddTypeEvent \/ AddNamedTypeEvent \/ SetNameEvent \/ SetNamespaceEvent
    \/ SetSizeEvent \/ SetSymbolsEvent \/ FieldNameEvent
    \/ setValuesAttribute \/ setTypesAttribute \/ setItemsAttribute \/ setFieldsAttribute

\* C24: every builder event other than startType() and stopType() changes only
\* the top frame: the depth of the frame stack, every frame below the top, the
\* root and the nodes built so far are unchanged, and the namespace stack is
\* changed by setNamespaceAttribute() alone.
C24_OnlyTopFrame ==
    [][\/ /\ Len(stack_') = Len(stack_)
          /\ Front(stack_') = Front(stack_)
          /\ root_' = root_
          /\ nodes' = nodes
          /\ (namespaceStack_' = namespaceStack_ \/ SetNamespaceEvent)
       \/ ~AttributeEvent]_vars

\* setNamespaceAttribute() acted on the upper of two frames: the namespace is
\* on that frame and on the namespace stack, the lower frame has its kind
C24_Witness ==
    /\ error = NoError
    /\ Len(stack_) = 2
    /\ stack_[2].namespaceAttribute_ # <<>>
    /\ stack_[1].namespaceAttribute_ = <<>>
    /\ stack_[1].type_ # AVRO_NUM_TYPES
    /\ namespaceStack_ # <<>>

\* no node can be built from frame f: its constructor is refused
BuildFails(f) == ~nodeFromCompilerNode(f, Len(nodes)).ok

\* C25: when building the node from the top frame fails inside stopType(),
\* nothing was popped: the frame stack (the failing frame on top of it), the
\* namespace stack and the root are as before the call, no node is added and
\* nothing is appended to the frame below; the call fails with the error of
\* the constructor.
C25_BuildFailureKeepsFrames ==
    [][(stopType /\ BuildFails(Top))
          => /\ stack_' = stack_
             /\ namespaceStack_' = namespaceStack_
             /\ root_' = root_
             /\ nodes' = nodes
             /\ error' # NoError]_vars

\* stopType() was refused on a map frame without a value, pushed on a frame
\* that takes children: both frames are still open
C25_Witness ==
    /\ Len(stack_) = 2
    /\ Top.type_ = "AVRO_MAP" /\ Top.valuesAttribute_ = <<>>
    /\ stack_[1].attributeType_ # "NONE"
    /\ error = "index out of range"

(* ------- frame lifecycle, stopType() on no open frame (SpecStop) ------- *)

\* #define DEBUG_VERBOSE
DEBUG_VERBOSE == TRUE

\* assert(!stack_.empty()) fails: the process is aborted
AssertFailed == <<"a", "s", "s", "e", "r", "t">>
\* the read of back() of an empty vector faults
Faulted == <<"f", "a", "u", "l", "t">>

\* what stack_.back().type() of an empty stack_ does to the call: undefined
\* behaviour, the read faults or yields a value that is printed
BackOfEmpty == {Faulted, <<>>}

\* stopType() while stack_ is empty.  Under DEBUG_VERBOSE the first statement
\* prints stack_.back().type(); the assertion comes after it.  `last.arg`
\* counts the reads of stack_.back() the call made, `last.text` says how the
\* call ended.
stopTypeOnEmpty ==
    /\ Accepting
    /\ stack_ = <<>>
    /\ events' = events + 1
    /\ \E read \in (IF DEBUG_VERBOSE THEN BackOfEmpty ELSE {<<>>}) :
          LET end == IF read = Faulted THEN Faulted ELSE AssertFailed
          IN  /\ last' = Call("stopType", NULL, IF DEBUG_VERBOSE THEN 1 ELSE 0,
                              end, NULL, "none")
              /\ error' = "stopType() without an open frame"
    /\ UNCHANGED <<stack_, namespaceStack_, root_, nodes, pushDepth, owners, alive, passed>>

\* frames are pushed, given a kind, a namespace and a slot marker, and finished
NextStop ==
    \/ startType
    \/ stopType
    \/ AddTypeEvent
    \/ SetNamespaceEvent
    \/ setValuesAttribute
    \/ setTypesAttribute
    \/ setItemsAttribute
    \/ setFieldsAttribute
    \/ stopTypeOnEmpty

SpecStop == Init /\ [][NextStop]_vars

\* the frame under the top frame takes a finished child: it is absent (the
\* child becomes the root) or its marker names a slot with room
Attachable == Len(stack_) = 1 \/ addNode(stack_[Len(stack_) - 1], NULL).ok

\* every open frame holds the children it held, and the root and heap are kept
ChildrenKept ==
    /\ root_' = root_
    /\ nodes' = nodes
    /\ \A i \in 1..Len(stack_) :
          i <= Len(stack_') => FrameChildren(stack_'[i]) = FrameChildren(stack_[i])

C28_EmptyStopAsserts ==
    [][stopTypeOnEmpty
          => /\ last'.arg = 0
             /\ last'.text = AssertFailed
             /\ stack_' = stack_
             /\ namespaceStack_' = namespaceStack_
             /\ root_' = root_]_vars

(* ------------------- compileJsonSchema (SpecCompile) ------------------- *)

\* builder events of one parse
MaxParse == 5

StreamGood == <<"g", "o", "o", "d">>
StreamBad == <<"b", "a", "d">>

\* the catch block that stores no message
Caught_NoMessage(call, what) == [call EXCEPT !.op = "returned", !.arg = 0]

\* catch (Exception &e) { error = e.what(); } ... return success;
\* `arg` is the value returned (1 true, 0 false), `val` the caller's error
\* string, `ret` the root the caller's ValidSchema holds.
Caught(call, what) == [call EXCEPT !.op = "returned", !.arg = 0, !.val = what]

\* schema.setSchema(s) completed; success = true; return success;
Returned(call, root) == [call EXCEPT !.op = "returned", !.arg = 1, !.ret = root]

\* compileJsonSchema(is, schema, error) is called: a stream that is not good
\* returns at once, else yyparse() starts
CompileBegin(good) ==
    /\ last.op = "none"
    /\ last' = IF good
               THEN [last EXCEPT !.op = "yyparse", !.text = StreamGood]
               ELSE [last EXCEPT !.op = "returned", !.arg = 0, !.text = StreamBad,
                                 !.val = "Input stream is not good"]
    /\ UNCHANGED <<ctxVars, nodes, owners, alive, passed>>

\* yyparse() delivers an event to the CompilerContext
ParseEvent ==
    /\ last.op = "yyparse"
    /\ events < MaxParse
    /\ Next

\* an event threw: the Exception leaves yyparse() and is caught
CompileCatch ==
    /\ last.op = "yyparse"
    /\ error # NoError
    /\ last' = Caught(last, error)
    /\ UNCHANGED <<ctxVars, nodes, owners, alive, passed>>

\* yyparse() returned with the root built
Parsed ==
    /\ last.op = "yyparse"
    /\ error = NoError
    /\ stack_ = <<>>
    /\ root_ # NULL

\* Schema s(myctx.getRoot()); schema.setSchema(s) with a valid root
CompileFinish ==
    /\ Parsed
    /\ isValid(nodes, root_) = "true"
    /\ last' = Returned(last, root_)
    /\ UNCHANGED <<ctxVars, nodes, owners, alive, passed>>

\* schema.setSchema(s) refuses a root that is not valid: the Exception is
\* caught; the holder is left as setSchema left it
CompileReject ==
    /\ Parsed
    /\ isValid(nodes, root_) # "true"
    /\ \E holder \in {last.ret, root_} :
          last' = [Caught(last, "Schema is invalid") EXCEPT !.ret = holder]
    /\ UNCHANGED <<ctxVars, nodes, owners, alive, passed>>

CompileBeginCall == \E good \in BOOLEAN : CompileBegin(good)

NextCompile ==
    \/ CompileBeginCall
    \/ ParseEvent
    \/ CompileCatch
    \/ CompileFinish
    \/ CompileReject

SpecCompile == Init /\ [][NextCompile]_vars

\* C20: compileJsonSchema(is, schema, error) returns true exactly when the
\* parse completed and the schema holder was set from the root; when the stream
\* is not good or an event of the builder threw, it returns false with the
\* message in error and the holder as it was; an Exception thrown while
\* parsing is always caught.
C20_CompileReportsFailure ==
    /\ last.op = "returned" =>
          /\ last.arg = 1 <=> (last.text = StreamGood /\ error = NoError
                                /\ root_ # NULL /\ stack_ = <<>> /\ last.ret = root_
                                /\ last.val = NoError)
          /\ last.arg = 0 => last.val # NoError
          /\ last.text = StreamBad
                => (last.arg = 0 /\ last.val = "Input stream is not good"
                    /\ last.ret = NULL /\ events = 0)
          /\ error # NoError
                => (last.arg = 0 /\ last.val = error /\ last.ret = NULL)
    /\ (last.op = "yyparse" /\ error # NoError) => ENABLED CompileCatch

\* the constructor of an enum threw during the parse and the call returned false
C20_Witness ==
    /\ last.op = "returned"
    /\ last.arg = 0
    /\ error = "Cannot add duplicate name"
    /\ last.val = error

(* --------------- a record declaration (SpecRecord) -------------------- *)

Person == <<"P", "e", "r", "s", "o", "n">>
DeclNames == {<<"n", "a", "m", "e">>, <<"a", "g", "e">>}
DeclTypes == {"AVRO_STRING", "AVRO_INT"}

\* the declarations the parser may read: up to MaxDeclared fields, each a field
\* name and a field type
Declarations == UNION {[1..k -> DeclNames \X DeclTypes] : k \in 0..MaxDeclared}

Event(ev, type, text) == [ev |-> ev, type |-> type, text |-> text]

\* the events of the fields from the i-th on: the field name, then the frame
\* of the field type
RECURSIVE FieldEvents(_, _)
FieldEvents(decl, i) ==
    IF i > Len(decl) THEN <<>>
    ELSE <<Event("textContainsFieldName", "", decl[i][1]),
           Event("startType", "", <<>>),
           Event("addType", decl[i][2], <<>>),
           Event("stopType", "", <<>>)>>
         \o FieldEvents(decl, i + 1)

\* the events the parser delivers for the record Person with the fields `decl`
Script(decl) ==
    <<Event("startType", "", <<>>),
      Event("addType", "AVRO_RECORD", <<>>),
      Event("setNameAttribute", "", Person),
      Event("setFieldsAttribute", "", <<>>)>>
    \o FieldEvents(decl, 1)
    \o <<Event("stopType", "", <<>>)>>

\* the parser is given a declaration: `last.text` keeps it
InitRecord ==
    /\ stack_ = <<>>
    /\ namespaceStack_ = <<>>
    /\ root_ = NULL
    /\ nodes = <<>>
    /\ error = NoError
    /\ events = 0
    /\ pushDepth = <<>>
    /\ owners = {}
    /\ alive = {}
    /\ passed = <<>>
    /\ \E decl \in Declarations : last = [NoCall EXCEPT !.op = "record", !.text = decl]

Declared == last.text

\* the parser delivers the next event of the declaration
Deliver(e) ==
    \/ e.ev = "startType" /\ startType
    \/ e.ev = "addType" /\ addType(e.type)
    \/ e.ev = "setNameAttribute" /\ setNameAttribute(e.text)
    \/ e.ev = "setFieldsAttribute" /\ setFieldsAttribute
    \/ e.ev = "textContainsFieldName" /\ textContainsFieldName(e.text)
    \/ e.ev = "stopType" /\ stopType

ScriptStep ==
    /\ last.op = "record"
    /\ events < Len(Script(Declared))
    /\ Deliver(Script(Declared)[events + 1])

NextRecord == ScriptStep

SpecRecord == InitRecord /\ [][NextRecord]_vars

DistinctDeclared ==
    \A i, j \in 1..Len(Declared) : i # j => Declared[i][1] # Declared[j][1]

\* C21: when the parser has delivered the events of a record declared with n
\* fields of distinct names, each a field name followed by the frame of its
\* type, the root is a valid Record node with n children and n field names,
\* child i and field name i being the i-th declared field.
C21_RecordKeepsDeclaration ==
    (last.op = "record" /\ events = Len(Script(Declared)) /\ DistinctDeclared)
        => /\ error = NoError
           /\ stack_ = <<>>
           /\ root_ # NULL
           /\ nodes[root_].type = "AVRO_RECORD"
           /\ nodes[root_].nameAttribute_ = <<Person>>
           /\ Len(nodes[root_].leafAttributes_) = Len(Declared)
           /\ Len(nodes[root_].leafNameAttributes_) = Len(Declared)
           /\ \A i \in 1..Len(Declared) :
                 /\ nodes[root_].leafNameAttributes_[i] = Declared[i][1]
                 /\ nodes[nodes[root_].leafAttributes_[i]].type = Declared[i][2]
           /\ isValid(nodes, root_) = "true"

\* Person with name: string, age: int was built
C21_Witness ==
    /\ last.op = "record"
    /\ Declared = << <<<<"n", "a", "m", "e">>, "AVRO_STRING">>, <<<<"a", "g", "e">>, "AVRO_INT">> >>
    /\ events = Len(Script(Declared))
    /\ root_ # NULL
    /\ Len(nodes[root_].leafAttributes_) = 2

====
